---- MODULE Spec2Model ----
(***************************************************************************)
(* Live automation session of the web assistant front end.                 *)
(*                                                                         *)
(* The model follows src/frontend/src/App.jsx (the WebSocket connection    *)
(* manager and its message handler), the zustand store                     *)
(* (src/unnamed/part_001) and the LiveStepsIndicator component             *)
(* (src/frontend/src/components/ModeSelector.jsx).  Every handler of the   *)
(* browser's single event loop is one action: handlers run to completion.  *)
(*                                                                         *)
(* JSON values are strings; a field a frame does not carry, and a key an   *)
(* object does not hold, reads as Undefined.  Numbers are numerals.        *)
(***************************************************************************)
EXTENDS Integers, Sequences, FiniteSets, TLC

(***************************************************************************)
(* Bounds of the model.                                                    *)
(***************************************************************************)
\* sockets ever created (new WebSocket calls)
MaxSockets == 3
\* records the step history may hold before further image frames are withheld
MaxSteps == 6
\* auto-revert timers pending at once
MaxHold == 2
\* chat messages the conversation may hold before further sends are withheld
MaxMessages == 4

(***************************************************************************)
(* Program constants.                                                      *)
(***************************************************************************)
\* setTimeout(..., 2000) after automation_complete
CompleteHoldMs == 2000
\* setTimeout(..., 3000) after automation_error
ErrorHoldMs == 3000
\* steps.slice(-3) in LiveStepsIndicator
SliceStart == -3

HoldDelays == {CompleteHoldMs, ErrorHoldMs}

\* JavaScript's undefined: the value of a missing field or key.
Undefined == "undefined"
\* null of a ref (wsRef.current, reconnectTimeoutRef.current): sockets and
\* timers are numbered from 1.
NullRef == 0
\* connectWebSocket has not been called yet
NoCall == -1
\* null of the store's automationStatus and of browserScreenshot (objects)
Null == [null |-> TRUE]
\* null of the store's currentUrl (a string otherwise)
NullUrl == "null"

\* JavaScript truthiness of the values the frames carry.
Truthy(v) == v \notin {Undefined, "", "0"}

\* a || b
Or(a, b) == IF Truthy(a) THEN a ELSE b

\* obj?.key
Get(obj, key) == IF obj # Null /\ key \in DOMAIN obj THEN obj[key] ELSE Undefined

(***************************************************************************)
(* The inbound frames the runner may send: event.data after JSON.parse.    *)
(* "unparseable" stands for a payload JSON.parse throws on.                *)
(***************************************************************************)
Frame(type, status, message, action, step, maxSteps, screenshot, url, error) ==
    [type |-> type, status |-> status, message |-> message, action |-> action,
     step |-> step, maxSteps |-> maxSteps, screenshot |-> screenshot,
     url |-> url, error |-> error]

U == Undefined

StartFrames ==
    { Frame("automation_start", "Working...", "Preparing", U, U, U, U, U, U),
      Frame("automation_start", U, "Preparing", U, U, U, U, U, U) }

StatusFrames ==
    { Frame("automation_status", "Working...", "Clicking button", "click", "2", "5", U, U, U),
      Frame("automation_status", "Working...", "Thinking", U, U, U, U, U, U),
      Frame("automation_status", "Working...", U, "type", "3", U, U, U, U) }

\* screenshot_update frames: with or without an image, with or without a url
ScreenshotFramesOf(images) ==
    { Frame("screenshot_update", U, U, U, U, U, shot, url, U) :
          shot \in images \cup {U}, url \in {"http://a", U} }

ScreenshotFrames == ScreenshotFramesOf({"img1"})

CompleteFrames ==
    { Frame("automation_complete", U, U, U, U, U, U, U, U) }

ErrorFrames ==
    { Frame("automation_error", U, U, U, U, U, U, U, "navigation timeout"),
      Frame("automation_error", U, U, U, U, U, U, U, U) }

OtherFrames ==
    { Frame("pong", U, U, U, U, U, U, U, U),
      Frame("mystery", U, U, U, U, U, U, U, U),
      Frame("unparseable", U, U, U, U, U, U, U, U) }

Frames ==
    StartFrames \cup StatusFrames \cup ScreenshotFrames \cup CompleteFrames
        \cup ErrorFrames \cup OtherFrames

\* the frames that touch the step history, with two images to tell records apart
HistoryFrames ==
    { Frame("automation_start", "Working...", "Preparing", U, U, U, U, U, U) }
        \cup ScreenshotFramesOf({"img1", "img2"}) \cup CompleteFrames

VARIABLES
    \* ---- connection manager (App.jsx refs and the browser's sockets/timers)
    lifecycle,            \* "init" | "mounted" | "unmounted": the mount effect
    sockets,              \* readyState of every WebSocket created, by number
    wsRef,                \* wsRef.current
    isConnectingRef,      \* isConnectingRef.current
    reconnectTimeoutRef,  \* reconnectTimeoutRef.current
    reconnectTimers,      \* reconnect timeouts pending in the browser
    timerCount,           \* reconnect timeouts created so far (ids are 1..timerCount)
    mountWs,              \* `ws` of the mount effect's closure
    connectResult,        \* what the last call of connectWebSocket returned
    pingInterval,         \* the keep-alive interval is running
    pingSentTo,           \* socket the last 'ping' was sent on
    failing,              \* socket whose error event fired, close event to follow
    \* ---- store (zustand) and component state
    isAutomating,
    automationStatus,
    automationSteps,
    currentUrl,
    browserUrl,
    browserScreenshot,
    holdTimers,           \* pending setTimeout(resetAutomationState), per delay
    visible,              \* the records LiveStepsIndicator rendered last
    \* ---- chat (App.jsx state, the store's messages and mode)
    input,                \* text of the input box
    isLoading,
    currentMode,
    messages,
    pendingChat,          \* fetch('/api/chat') calls not settled yet, with the
                          \* currentMode their handleSend closure holds
    \* ---- diagnostics
    consoleError          \* the last line written with console.error

connVars ==
    <<lifecycle, sockets, wsRef, isConnectingRef, reconnectTimeoutRef,
      reconnectTimers, timerCount, mountWs, connectResult, pingInterval,
      pingSentTo, failing>>

sessionVars == <<isAutomating, automationStatus, automationSteps>>

viewVars == <<currentUrl, browserUrl, browserScreenshot>>

chatVars == <<input, isLoading, currentMode, messages, pendingChat>>

storeVars == <<isAutomating, automationStatus, automationSteps, currentUrl,
               browserUrl, browserScreenshot, holdTimers, visible, chatVars,
               consoleError>>

vars == <<connVars, storeVars>>

SocketIds == 1..Len(sockets)

Live(ws) == sockets[ws] \in {"CONNECTING", "OPEN"}

(***************************************************************************)
(* State after construction: first render, before the mount effect runs.   *)
(***************************************************************************)
Init ==
    /\ lifecycle = "init"
    /\ sockets = << >>
    /\ wsRef = NullRef
    /\ isConnectingRef = FALSE
    /\ reconnectTimeoutRef = NullRef
    /\ reconnectTimers = {}
    /\ timerCount = 0
    /\ mountWs = NullRef
    /\ connectResult = NoCall
    /\ pingInterval = FALSE
    /\ pingSentTo = NullRef
    /\ failing = NullRef
    /\ isAutomating = FALSE
    /\ automationStatus = Null
    /\ automationSteps = << >>
    /\ currentUrl = NullUrl
    /\ browserUrl = "about:blank"
    /\ browserScreenshot = Null
    /\ holdTimers = [d \in HoldDelays |-> 0]
    /\ visible = << >>
    /\ input = ""
    /\ isLoading = FALSE
    /\ currentMode = "assist"
    /\ messages = << >>
    /\ pendingChat = << >>
    /\ consoleError = ""

(***************************************************************************)
(* connectWebSocket                                                        *)
(***************************************************************************)
\* faulty variant: the guard looks at the open socket only, not at the flag
ConnectGuardNoFlag ==
    wsRef # NullRef /\ sockets[wsRef] = "OPEN"

\* faulty variant: the guard looks at the flag only, not at the open socket
ConnectGuardFlagOnly == isConnectingRef

\* the early return: an attempt is in flight or the current socket is open
ConnectGuard ==
    isConnectingRef \/ (wsRef # NullRef /\ sockets[wsRef] = "OPEN")

\* connectWebSocket: the flag, the new socket, the value returned
ConnectWebSocket ==
    IF ConnectGuard
    THEN /\ connectResult' = wsRef
         /\ UNCHANGED <<sockets, isConnectingRef>>
    ELSE /\ Len(sockets) < MaxSockets
         /\ isConnectingRef' = TRUE
         /\ sockets' = Append(sockets, "CONNECTING")
         /\ connectResult' = Len(sockets) + 1

(***************************************************************************)
(* Socket handlers                                                         *)
(***************************************************************************)
OnOpen(ws) ==
    /\ wsRef' = ws
    /\ isConnectingRef' = FALSE
    /\ IF reconnectTimeoutRef # NullRef
       THEN /\ reconnectTimers' = reconnectTimers \ {reconnectTimeoutRef}
            /\ reconnectTimeoutRef' = NullRef
       ELSE UNCHANGED <<reconnectTimers, reconnectTimeoutRef>>
    /\ UNCHANGED timerCount

\* faulty variant: the close handler schedules no reconnect
OnCloseNoReconnect ==
    /\ wsRef' = NullRef
    /\ isConnectingRef' = FALSE
    /\ UNCHANGED <<timerCount, reconnectTimers, reconnectTimeoutRef>>

\* faulty variant: the close handler schedules the reconnect only for the
\* socket that was the current one
OnCloseCurrentOnly ==
    /\ wsRef' = NullRef
    /\ isConnectingRef' = FALSE
    /\ IF reconnectTimeoutRef = NullRef /\ wsRef # NullRef
       THEN /\ timerCount' = timerCount + 1
            /\ reconnectTimers' = reconnectTimers \cup {timerCount + 1}
            /\ reconnectTimeoutRef' = timerCount + 1
       ELSE UNCHANGED <<timerCount, reconnectTimers, reconnectTimeoutRef>>

OnClose ==
    /\ wsRef' = NullRef
    /\ isConnectingRef' = FALSE
    /\ IF reconnectTimeoutRef = NullRef
       THEN /\ timerCount' = timerCount + 1
            /\ reconnectTimers' = reconnectTimers \cup {timerCount + 1}
            /\ reconnectTimeoutRef' = timerCount + 1
       ELSE UNCHANGED <<timerCount, reconnectTimers, reconnectTimeoutRef>>

\* faulty variant: the error handler retries too, with a timeout of its own
OnErrorRetries ==
    /\ consoleError' = "WebSocket error:"
    /\ isConnectingRef' = FALSE
    /\ timerCount' = timerCount + 1
    /\ reconnectTimers' = reconnectTimers \cup {timerCount + 1}
    /\ UNCHANGED <<wsRef, reconnectTimeoutRef>>

\* faulty variant: the error handler schedules the reconnect itself
OnErrorSchedules ==
    /\ consoleError' = "WebSocket error:"
    /\ isConnectingRef' = FALSE
    /\ IF reconnectTimeoutRef = NullRef
       THEN /\ timerCount' = timerCount + 1
            /\ reconnectTimers' = reconnectTimers \cup {timerCount + 1}
            /\ reconnectTimeoutRef' = timerCount + 1
       ELSE UNCHANGED <<timerCount, reconnectTimers, reconnectTimeoutRef>>
    /\ UNCHANGED wsRef

OnError ==
    /\ consoleError' = "WebSocket error:"
    /\ isConnectingRef' = FALSE
    /\ UNCHANGED <<wsRef, reconnectTimeoutRef, reconnectTimers, timerCount>>

\* the connection is established: readyState OPEN, then the open event
WsOpen(ws) ==
    /\ failing = NullRef
    /\ sockets[ws] = "CONNECTING"
    /\ sockets' = [sockets EXCEPT ![ws] = "OPEN"]
    /\ OnOpen(ws)
    /\ UNCHANGED <<lifecycle, mountWs, connectResult, pingInterval,
                   pingSentTo, failing>>
    /\ UNCHANGED storeVars

\* the connection fails: readyState CLOSED, then the error event; the close
\* event follows in the same task
WsError(ws) ==
    /\ failing = NullRef
    /\ Live(ws)
    /\ sockets' = [sockets EXCEPT ![ws] = "CLOSED"]
    /\ OnError
    /\ failing' = ws
    /\ UNCHANGED <<lifecycle, mountWs, connectResult, pingInterval, pingSentTo>>
    /\ UNCHANGED <<sessionVars, viewVars, holdTimers, visible, chatVars>>

\* faulty variant: a disconnect rolls the session back to idle
WsCloseResets(ws) ==
    /\ \/ failing = ws
       \/ failing = NullRef /\ sockets[ws] \in {"OPEN", "CLOSING"}
    /\ sockets' = [sockets EXCEPT ![ws] = "CLOSED"]
    /\ OnClose
    /\ failing' = NullRef
    /\ isAutomating' = FALSE
    /\ automationStatus' = Null
    /\ automationSteps' = << >>
    /\ UNCHANGED <<lifecycle, mountWs, connectResult, pingInterval, pingSentTo>>
    /\ UNCHANGED <<viewVars, holdTimers, visible, chatVars, consoleError>>

\* the close event: after an error, or when the closing handshake ends
WsClose(ws) ==
    /\ \/ failing = ws
       \/ failing = NullRef /\ sockets[ws] \in {"OPEN", "CLOSING"}
    /\ sockets' = [sockets EXCEPT ![ws] = "CLOSED"]
    /\ OnClose
    /\ failing' = NullRef
    /\ UNCHANGED <<lifecycle, mountWs, connectResult, pingInterval, pingSentTo>>
    /\ UNCHANGED storeVars

\* faulty variant: the reconnect is an interval, it stays armed after it fired
ReconnectTimerFireStaysArmed(t) ==
    /\ failing = NullRef
    /\ t \in reconnectTimers
    /\ UNCHANGED reconnectTimers
    /\ reconnectTimeoutRef' = NullRef
    /\ ConnectWebSocket
    /\ UNCHANGED <<lifecycle, wsRef, timerCount, mountWs, pingInterval,
                   pingSentTo, failing>>
    /\ UNCHANGED storeVars

\* the reconnect timeout's callback
ReconnectTimerFire(t) ==
    /\ failing = NullRef
    /\ t \in reconnectTimers
    /\ reconnectTimers' = reconnectTimers \ {t}
    /\ reconnectTimeoutRef' = NullRef
    /\ ConnectWebSocket
    /\ UNCHANGED <<lifecycle, wsRef, timerCount, mountWs, pingInterval,
                   pingSentTo, failing>>
    /\ UNCHANGED storeVars

(***************************************************************************)
(* The mount effect and its cleanup                                        *)
(***************************************************************************)
Mount ==
    /\ lifecycle = "init"
    /\ lifecycle' = "mounted"
    /\ ConnectWebSocket
    /\ mountWs' = connectResult'
    /\ pingInterval' = TRUE
    /\ UNCHANGED <<wsRef, reconnectTimeoutRef, reconnectTimers, timerCount,
                   pingSentTo, failing>>
    /\ UNCHANGED storeVars

\* faulty variant: the ping goes to the socket of the mount effect, whatever
\* its readyState
PingTickMountSocket ==
    /\ failing = NullRef
    /\ pingInterval
    /\ IF mountWs # NullRef
       THEN pingSentTo' = mountWs
       ELSE UNCHANGED pingSentTo
    /\ UNCHANGED <<lifecycle, sockets, wsRef, isConnectingRef,
                   reconnectTimeoutRef, reconnectTimers, timerCount, mountWs,
                   connectResult, pingInterval, failing>>
    /\ UNCHANGED storeVars

\* the interval's callback
PingTick ==
    /\ failing = NullRef
    /\ pingInterval
    /\ IF wsRef # NullRef /\ sockets[wsRef] = "OPEN"
       THEN pingSentTo' = wsRef
       ELSE UNCHANGED pingSentTo
    /\ UNCHANGED <<lifecycle, sockets, wsRef, isConnectingRef,
                   reconnectTimeoutRef, reconnectTimers, timerCount, mountWs,
                   connectResult, pingInterval, failing>>
    /\ UNCHANGED storeVars

\* the effect's cleanup (shutdown)
Unmount ==
    /\ failing = NullRef
    /\ lifecycle = "mounted"
    /\ lifecycle' = "unmounted"
    /\ pingInterval' = FALSE
    /\ IF reconnectTimeoutRef # NullRef
       THEN reconnectTimers' = reconnectTimers \ {reconnectTimeoutRef}
       ELSE UNCHANGED reconnectTimers
    /\ IF mountWs # NullRef /\ sockets[mountWs] = "OPEN"
       THEN sockets' = [sockets EXCEPT ![mountWs] = "CLOSING"]
       ELSE UNCHANGED sockets
    /\ UNCHANGED <<wsRef, isConnectingRef, reconnectTimeoutRef, timerCount,
                   mountWs, connectResult, pingSentTo, failing>>
    /\ UNCHANGED storeVars

(***************************************************************************)
(* The store                                                               *)
(***************************************************************************)
\* addAutomationStep: [...state.automationSteps, step]
AddAutomationStep(steps, step) == Append(steps, step)

\* faulty variant: the reset forgets the step history
ResetKeepsSteps ==
    /\ isAutomating' = FALSE
    /\ automationStatus' = Null
    /\ UNCHANGED automationSteps

\* resetAutomationState
ResetAutomationState ==
    /\ isAutomating' = FALSE
    /\ automationStatus' = Null
    /\ automationSteps' = << >>

\* automationStatus as the message handler's closure sees it: connectWebSocket
\* is the first render's, called from the mount effect (empty dependency
\* array) and from its own close handler, so the value is the initial one.
ClosureAutomationStatus == Null

(***************************************************************************)
(* ws.onmessage                                                            *)
(***************************************************************************)
ScheduleHold(d) ==
    /\ holdTimers[CompleteHoldMs] + holdTimers[ErrorHoldMs] < MaxHold
    /\ holdTimers' = [holdTimers EXCEPT ![d] = @ + 1]

\* faulty variant: the start handler forgets setIsAutomating(true)
OnAutomationStartNoFlag(data) ==
    /\ automationSteps' = << >>
    /\ automationStatus' = [status |-> data.status, message |-> data.message]
    /\ UNCHANGED <<isAutomating, viewVars, holdTimers>>

\* faulty variant: the start handler raises the flag and stores no status
OnAutomationStartFlagOnly(data) ==
    /\ isAutomating' = TRUE
    /\ automationSteps' = << >>
    /\ UNCHANGED <<automationStatus, viewVars, holdTimers>>

OnAutomationStart(data) ==
    /\ isAutomating' = TRUE
    /\ automationSteps' = << >>
    /\ automationStatus' = [status |-> data.status, message |-> data.message]
    /\ UNCHANGED <<viewVars, holdTimers>>

\* faulty variant: the progress handler drops the step counters
OnAutomationStatusNoCounters(data) ==
    /\ automationStatus' =
           [status |-> data.status, message |-> data.message,
            action |-> data.action, step |-> Undefined,
            maxSteps |-> Undefined]
    /\ UNCHANGED <<isAutomating, automationSteps, viewVars, holdTimers>>

OnAutomationStatus(data) ==
    /\ automationStatus' =
           [status |-> data.status, message |-> data.message,
            action |-> data.action, step |-> data.step,
            maxSteps |-> data.maxSteps]
    /\ UNCHANGED <<isAutomating, automationSteps, viewVars, holdTimers>>

\* faulty variant: the location is looked at only when no image came along
OnScreenshotUpdateElseIf(data) ==
    /\ IF Truthy(data.screenshot)
       THEN /\ Len(automationSteps) < MaxSteps
            /\ browserScreenshot' =
                   [prefix |-> "data:image/png;base64,", data |-> data.screenshot]
            /\ automationSteps' =
                   AddAutomationStep(automationSteps,
                       [action |-> Or(Get(ClosureAutomationStatus, "action"), "update"),
                        message |-> Or(Get(ClosureAutomationStatus, "message"), "Updated"),
                        screenshot |-> data.screenshot])
            /\ UNCHANGED <<browserUrl, currentUrl>>
       ELSE /\ UNCHANGED <<browserScreenshot, automationSteps>>
            /\ IF Truthy(data.url)
               THEN browserUrl' = data.url /\ currentUrl' = data.url
               ELSE UNCHANGED <<browserUrl, currentUrl>>
    /\ UNCHANGED <<isAutomating, automationStatus, holdTimers>>

OnScreenshotUpdate(data) ==
    /\ IF Truthy(data.screenshot)
       THEN /\ Len(automationSteps) < MaxSteps
            /\ browserScreenshot' =
                   [prefix |-> "data:image/png;base64,", data |-> data.screenshot]
            /\ automationSteps' =
                   AddAutomationStep(automationSteps,
                       [action |-> Or(Get(ClosureAutomationStatus, "action"), "update"),
                        message |-> Or(Get(ClosureAutomationStatus, "message"), "Updated"),
                        screenshot |-> data.screenshot])
       ELSE UNCHANGED <<browserScreenshot, automationSteps>>
    /\ IF Truthy(data.url)
       THEN browserUrl' = data.url /\ currentUrl' = data.url
       ELSE UNCHANGED <<browserUrl, currentUrl>>
    /\ UNCHANGED <<isAutomating, automationStatus, holdTimers>>

OnAutomationComplete ==
    /\ automationStatus' =
           [status |-> "Complete", message |-> "Task finished", action |-> "done"]
    /\ ScheduleHold(CompleteHoldMs)
    /\ UNCHANGED <<isAutomating, automationSteps, viewVars>>

\* faulty variant: the error handler drops the step history at once
OnAutomationErrorClearsSteps(data) ==
    /\ automationStatus' =
           [status |-> "Error", message |-> data.error, action |-> "error"]
    /\ automationSteps' = << >>
    /\ ScheduleHold(ErrorHoldMs)
    /\ UNCHANGED <<isAutomating, viewVars>>

OnAutomationError(data) ==
    /\ automationStatus' =
           [status |-> "Error", message |-> data.error, action |-> "error"]
    /\ ScheduleHold(ErrorHoldMs)
    /\ UNCHANGED <<isAutomating, automationSteps, viewVars>>

\* JSON.parse(event.data) returns an object
Parses(data) == data.type # "unparseable"

\* faulty variant: a payload that does not parse is taken for a failed task
HandleFrameParseFails(data) ==
    IF Parses(data)
    THEN /\ UNCHANGED consoleError
         /\ CASE data.type = "automation_start" -> OnAutomationStart(data)
              [] data.type = "automation_status" -> OnAutomationStatus(data)
              [] data.type = "screenshot_update" -> OnScreenshotUpdate(data)
              [] data.type = "automation_complete" -> OnAutomationComplete
              [] data.type = "automation_error" -> OnAutomationError(data)
              [] OTHER -> UNCHANGED <<sessionVars, viewVars, holdTimers>>
    ELSE /\ consoleError' = "Error parsing WS message:"
         /\ ResetAutomationState
         /\ UNCHANGED <<viewVars, holdTimers>>

\* faulty variant: a frame of a kind the switch does not know ends the task
HandleFrameDefaultResets(data) ==
    IF Parses(data)
    THEN /\ UNCHANGED consoleError
         /\ CASE data.type = "automation_start" -> OnAutomationStart(data)
              [] data.type = "automation_status" -> OnAutomationStatus(data)
              [] data.type = "screenshot_update" -> OnScreenshotUpdate(data)
              [] data.type = "automation_complete" -> OnAutomationComplete
              [] data.type = "automation_error" -> OnAutomationError(data)
              [] OTHER -> ResetAutomationState /\ UNCHANGED <<viewVars, holdTimers>>
    ELSE /\ consoleError' = "Error parsing WS message:"
         /\ UNCHANGED <<sessionVars, viewVars, holdTimers>>

\* the try block (JSON.parse, then the switch on data.type) and its catch
HandleFrame(data) ==
    IF Parses(data)
    THEN /\ UNCHANGED consoleError
         /\ CASE data.type = "automation_start" -> OnAutomationStart(data)
              [] data.type = "automation_status" -> OnAutomationStatus(data)
              [] data.type = "screenshot_update" -> OnScreenshotUpdate(data)
              [] data.type = "automation_complete" -> OnAutomationComplete
              [] data.type = "automation_error" -> OnAutomationError(data)
              [] OTHER -> UNCHANGED <<sessionVars, viewVars, holdTimers>>
    ELSE /\ consoleError' = "Error parsing WS message:"
         /\ UNCHANGED <<sessionVars, viewVars, holdTimers>>

\* a message event on socket ws
OnMessage(ws, data) ==
    /\ failing = NullRef
    /\ sockets[ws] \in {"OPEN", "CLOSING"}
    /\ HandleFrame(data)
    /\ UNCHANGED <<connVars, visible, chatVars>>

\* faulty variant: the timeout is an interval, it stays armed after it fired
HoldTimerFireRepeats(d) ==
    /\ failing = NullRef
    /\ holdTimers[d] > 0
    /\ UNCHANGED holdTimers
    /\ ResetAutomationState
    /\ UNCHANGED <<viewVars, visible, chatVars, consoleError>>
    /\ UNCHANGED connVars

\* faulty variant: the reset also forgets the location and the preview
HoldTimerFireClearsView(d) ==
    /\ failing = NullRef
    /\ holdTimers[d] > 0
    /\ holdTimers' = [holdTimers EXCEPT ![d] = @ - 1]
    /\ ResetAutomationState
    /\ currentUrl' = NullUrl
    /\ browserUrl' = "about:blank"
    /\ browserScreenshot' = Null
    /\ UNCHANGED <<visible, chatVars, consoleError>>
    /\ UNCHANGED connVars

\* the auto-revert timeout's callback
HoldTimerFire(d) ==
    /\ failing = NullRef
    /\ holdTimers[d] > 0
    /\ holdTimers' = [holdTimers EXCEPT ![d] = @ - 1]
    /\ ResetAutomationState
    /\ UNCHANGED <<viewVars, visible, chatVars, consoleError>>
    /\ UNCHANGED connVars

(***************************************************************************)
(* The chat: the input box, the mode selector and handleSend.  Texts are   *)
(* taken from a small set; what trim() and toLowerCase().includes() give   *)
(* on them is tabulated.                                                   *)
(***************************************************************************)
InputTexts == {"", "  ", "hello", "Open YouTube"}

Modes == {"assist", "automate"}

\* input.trim()
Trim(text) == IF text = "  " THEN "" ELSE text

\* input.toLowerCase()
ToLowerCase(text) == IF text = "Open YouTube" THEN "open youtube" ELSE text

\* lower.includes('navigate') || lower.includes('go to') || lower.includes('open')
IncludesNavigationWord(lower) == lower \in {"open youtube"}

\* what the chat request settles with: a reply, with or without a screenshot,
\* or a failure of fetch / response.json()
ChatResponses ==
    { [ok |-> TRUE, screenshot |-> Undefined],
      [ok |-> TRUE, screenshot |-> "img1"],
      [ok |-> FALSE, screenshot |-> Undefined] }

\* the status object handleSend stores before the request is made
PlaceholderStatus ==
    [status |-> "Working...", message |-> "Preparing to assist you"]

\* the condition of the optimistic trigger
TriggersAutomation(mode, text) ==
    mode = "automate" \/ IncludesNavigationWord(ToLowerCase(text))

\* faulty variant: the trigger also records a step in the history
OptimisticTriggerRecordsStep(session) ==
    <<TRUE, PlaceholderStatus,
      Append(session[3], [action |-> "update", message |-> "Updated",
                          screenshot |-> Undefined])>>

\* the optimistic trigger applied to a session <<isAutomating,
\* automationStatus, automationSteps>>
OptimisticTrigger(session) ==
    <<TRUE, PlaceholderStatus, session[3]>>

\* the input box's onChange
SetInput(text) ==
    /\ failing = NullRef
    /\ lifecycle = "mounted"
    /\ input' = text
    /\ UNCHANGED <<isLoading, currentMode, messages, pendingChat>>
    /\ UNCHANGED <<sessionVars, viewVars, holdTimers, visible, consoleError>>
    /\ UNCHANGED connVars

\* the mode selector's setMode
SetMode(mode) ==
    /\ failing = NullRef
    /\ lifecycle = "mounted"
    /\ currentMode' = mode
    /\ UNCHANGED <<input, isLoading, messages, pendingChat>>
    /\ UNCHANGED <<sessionVars, viewVars, holdTimers, visible, consoleError>>
    /\ UNCHANGED connVars

\* faulty variant: handleSend does not look at isLoading
HandleSendIgnoresLoading ==
    /\ failing = NullRef
    /\ lifecycle = "mounted"
    /\ IF Trim(input) = ""
       THEN UNCHANGED <<chatVars, sessionVars>>
       ELSE /\ Len(messages) + 2 <= MaxMessages
            /\ messages' = Append(messages,
                   [role |-> "user", content |-> input, mode |-> currentMode])
            /\ input' = ""
            /\ isLoading' = TRUE
            /\ IF TriggersAutomation(currentMode, input)
               THEN LET session == OptimisticTrigger(sessionVars)
                    IN  /\ isAutomating' = session[1]
                        /\ automationStatus' = session[2]
                        /\ automationSteps' = session[3]
               ELSE UNCHANGED sessionVars
            /\ pendingChat' = Append(pendingChat, [mode |-> currentMode])
            /\ UNCHANGED currentMode
    /\ UNCHANGED <<viewVars, holdTimers, visible, consoleError>>
    /\ UNCHANGED connVars

\* handleSend up to its await
HandleSend ==
    /\ failing = NullRef
    /\ lifecycle = "mounted"
    /\ IF Trim(input) = "" \/ isLoading
       THEN UNCHANGED <<chatVars, sessionVars>>
       ELSE /\ Len(messages) + 2 <= MaxMessages
            /\ messages' = Append(messages,
                   [role |-> "user", content |-> input, mode |-> currentMode])
            /\ input' = ""
            /\ isLoading' = TRUE
            /\ IF TriggersAutomation(currentMode, input)
               THEN LET session == OptimisticTrigger(sessionVars)
                    IN  /\ isAutomating' = session[1]
                        /\ automationStatus' = session[2]
                        /\ automationSteps' = session[3]
               ELSE UNCHANGED sessionVars
            /\ pendingChat' = Append(pendingChat, [mode |-> currentMode])
            /\ UNCHANGED currentMode
    /\ UNCHANGED <<viewVars, holdTimers, visible, consoleError>>
    /\ UNCHANGED connVars

\* handleSend after its await: the reply, or the catch block, then finally
ChatSettles(response) ==
    /\ failing = NullRef
    /\ pendingChat # << >>
    /\ pendingChat' = Tail(pendingChat)
    /\ IF response.ok
       THEN /\ browserScreenshot' =
                   IF Truthy(response.screenshot)
                   THEN [prefix |-> "data:image/png;base64,",
                         data |-> response.screenshot]
                   ELSE browserScreenshot
            /\ messages' = Append(messages,
                   [role |-> "assistant", content |-> "reply",
                    mode |-> Head(pendingChat).mode])
       ELSE /\ UNCHANGED browserScreenshot
            /\ messages' = Append(messages,
                   [role |-> "assistant",
                    content |-> "Sorry, I encountered an error. Please try again.",
                    mode |-> Undefined])
    /\ isLoading' = FALSE
    /\ UNCHANGED <<input, currentMode>>
    /\ UNCHANGED <<sessionVars, currentUrl, browserUrl, holdTimers, visible,
                   consoleError>>
    /\ UNCHANGED connVars

(***************************************************************************)
(* WorkingIndicator                                                        *)
(***************************************************************************)
NoCounters == [stepIndex |-> Undefined, stepTotal |-> Undefined]

\* faulty variant: the dots are drawn as soon as a step number is there
StepIndicatorStepOnly(status, isVisible) ==
    IF ~isVisible \/ status = Null
    THEN NoCounters
    ELSE IF Truthy(Get(status, "step"))
         THEN [stepIndex |-> Get(status, "step"),
               stepTotal |-> Get(status, "maxSteps")]
         ELSE NoCounters

\* the step counters WorkingIndicator draws: status.step && status.maxSteps
StepIndicator(status, isVisible) ==
    IF ~isVisible \/ status = Null
    THEN NoCounters
    ELSE IF Truthy(Get(status, "step")) /\ Truthy(Get(status, "maxSteps"))
         THEN [stepIndex |-> Get(status, "step"),
               stepTotal |-> Get(status, "maxSteps")]
         ELSE NoCounters

(***************************************************************************)
(* The phase the presentation shows, read off the store.  The start        *)
(* handler stores {status, message}; the status handler stores five keys;  *)
(* complete and error store fixed three-key objects.                       *)
(***************************************************************************)
CompleteStatus ==
    [status |-> "Complete", message |-> "Task finished", action |-> "done"]

PhaseOf(active, status) ==
    CASE ~active -> "idle"
      [] active /\ status = CompleteStatus -> "completed"
      [] active /\ status # Null /\ DOMAIN status = {"status", "message", "action"}
             /\ status # CompleteStatus -> "failed"
      [] active /\ status # Null
             /\ DOMAIN status = {"status", "message", "action", "step", "maxSteps"}
             -> "running"
      [] OTHER -> "starting"

Phase == PhaseOf(isAutomating, automationStatus)

(***************************************************************************)
(* LiveStepsIndicator                                                      *)
(***************************************************************************)
Max(a, b) == IF a > b THEN a ELSE b
Min(a, b) == IF a < b THEN a ELSE b

\* faulty variant: the sign of start is ignored, as slice(3) would do
ArraySlicePositive(arr, start) ==
    LET k == Min(IF start < 0 THEN 0 - start ELSE start, Len(arr))
    IN  SubSeq(arr, k + 1, Len(arr))

\* Array.prototype.slice(start): a negative start counts from the end
ArraySlice(arr, start) ==
    LET k == IF start < 0 THEN Max(Len(arr) + start, 0) ELSE Min(start, Len(arr))
    IN  SubSeq(arr, k + 1, Len(arr))

\* App renders LiveStepsIndicator while isAutomating; it maps steps.slice(-3)
Render ==
    /\ failing = NullRef
    /\ isAutomating
    /\ visible' = ArraySlice(automationSteps, SliceStart)
    /\ UNCHANGED <<sessionVars, viewVars, holdTimers, chatVars, consoleError>>
    /\ UNCHANGED connVars

(***************************************************************************)
(* The program                                                             *)
(***************************************************************************)
Next ==
    \/ Mount
    \/ Unmount
    \/ PingTick
    \/ \E ws \in SocketIds : WsOpen(ws)
    \/ \E ws \in SocketIds : WsError(ws)
    \/ \E ws \in SocketIds : WsClose(ws)
    \/ \E t \in reconnectTimers : ReconnectTimerFire(t)
    \/ \E ws \in SocketIds, data \in Frames : OnMessage(ws, data)
    \/ \E d \in HoldDelays : HoldTimerFire(d)

Spec == Init /\ [][Next]_vars

\* Timeouts that are pending do fire: the reconnect timeout's callback runs.
FairSpec == Spec /\ WF_vars(\E t \in reconnectTimers : ReconnectTimerFire(t))

(***************************************************************************)
(* A runner that performs tasks one after the other, each one              *)
(* start, progress*, complete, the next start after the hold has elapsed.  *)
(***************************************************************************)
NoHoldPending == \A d \in HoldDelays : holdTimers[d] = 0

\* frames that carry the fields their kind requires
WellFormed(data) == data.status # Undefined /\ data.message # Undefined

RunnerStart ==
    /\ Phase = "idle" /\ automationStatus = Null /\ NoHoldPending
    /\ \E ws \in SocketIds, data \in {f \in StartFrames : WellFormed(f)} :
           OnMessage(ws, data)

RunnerProgress ==
    /\ Phase \in {"starting", "running"}
    /\ \E ws \in SocketIds, data \in {f \in StatusFrames : WellFormed(f)} :
           OnMessage(ws, data)

RunnerComplete ==
    /\ Phase \in {"starting", "running"}
    /\ \E ws \in SocketIds, data \in CompleteFrames : OnMessage(ws, data)

NextSuccess ==
    \/ Mount
    \/ PingTick
    \/ \E ws \in SocketIds : WsOpen(ws)
    \/ \E ws \in SocketIds : WsError(ws)
    \/ \E ws \in SocketIds : WsClose(ws)
    \/ \E t \in reconnectTimers : ReconnectTimerFire(t)
    \/ RunnerStart
    \/ RunnerProgress
    \/ RunnerComplete
    \/ \E d \in HoldDelays : HoldTimerFire(d)

SpecSuccess == Init /\ [][NextSuccess]_vars

(***************************************************************************)
(* A runner whose tasks end in complete or error and whose next start may  *)
(* come at once, while the terminal state is still held.                   *)
(***************************************************************************)
RunnerStartNext ==
    /\ Phase \in {"idle", "completed", "failed"}
    /\ \E ws \in SocketIds, data \in {f \in StartFrames : WellFormed(f)} :
           OnMessage(ws, data)

RunnerError ==
    /\ Phase \in {"starting", "running"}
    /\ \E ws \in SocketIds, data \in {f \in ErrorFrames : f.error # Undefined} :
           OnMessage(ws, data)

NextTasks ==
    \/ Mount
    \/ PingTick
    \/ \E ws \in SocketIds : WsOpen(ws)
    \/ \E ws \in SocketIds : WsError(ws)
    \/ \E ws \in SocketIds : WsClose(ws)
    \/ \E t \in reconnectTimers : ReconnectTimerFire(t)
    \/ RunnerStartNext
    \/ RunnerProgress
    \/ RunnerComplete
    \/ RunnerError
    \/ \E d \in HoldDelays : HoldTimerFire(d)

SpecTasks == Init /\ [][NextTasks]_vars

(***************************************************************************)
(* A runner that performs tasks one after the other, each one start,       *)
(* progress and screenshots, then complete or error, the next start after  *)
(* the hold has elapsed.                                                   *)
(***************************************************************************)
RunnerScreenshot ==
    /\ Phase \in {"starting", "running"}
    /\ \E ws \in SocketIds, data \in {f \in ScreenshotFrames : Truthy(f.screenshot)} :
           OnMessage(ws, data)

NextSequential ==
    \/ Mount
    \/ \E ws \in SocketIds : WsOpen(ws)
    \/ \E ws \in SocketIds : WsError(ws)
    \/ \E ws \in SocketIds : WsClose(ws)
    \/ \E t \in reconnectTimers : ReconnectTimerFire(t)
    \/ RunnerStart
    \/ RunnerProgress
    \/ RunnerScreenshot
    \/ RunnerComplete
    \/ RunnerError
    \/ \E d \in HoldDelays : HoldTimerFire(d)

SpecSequential == Init /\ [][NextSequential]_vars

(***************************************************************************)
(* The step history and its rendering, on a channel that stays open.       *)
(***************************************************************************)
NextHistory ==
    \/ Mount
    \/ \E ws \in SocketIds : WsOpen(ws)
    \/ \E ws \in SocketIds, data \in HistoryFrames : OnMessage(ws, data)
    \/ \E d \in HoldDelays : HoldTimerFire(d)
    \/ Render

SpecHistory == Init /\ [][NextHistory]_vars

(***************************************************************************)
(* connectWebSocket called by a further caller while the component is      *)
(* mounted, in whatever state the connection manager is.                   *)
(***************************************************************************)
ConnectCall ==
    /\ failing = NullRef
    /\ lifecycle = "mounted"
    /\ ConnectWebSocket
    /\ UNCHANGED <<lifecycle, wsRef, reconnectTimeoutRef, reconnectTimers,
                   timerCount, mountWs, pingInterval, pingSentTo, failing>>
    /\ UNCHANGED storeVars

NextConnect ==
    \/ Mount
    \/ Unmount
    \/ PingTick
    \/ ConnectCall
    \/ \E ws \in SocketIds : WsOpen(ws)
    \/ \E ws \in SocketIds : WsError(ws)
    \/ \E ws \in SocketIds : WsClose(ws)
    \/ \E t \in reconnectTimers : ReconnectTimerFire(t)

SpecConnect == Init /\ [][NextConnect]_vars

(***************************************************************************)
(* The session and the chat on a channel that stays open: frames of every  *)
(* kind, the auto-revert timers, the input box, the mode selector and      *)
(* handleSend.                                                             *)
(***************************************************************************)
\* one frame of every kind the session reacts to
ChatFrames ==
    { Frame("automation_start", "Working...", "Preparing", U, U, U, U, U, U),
      Frame("automation_status", "Working...", "Clicking button", "click", "2", "5", U, U, U),
      Frame("screenshot_update", U, U, U, U, U, "img1", "http://a", U),
      Frame("automation_complete", U, U, U, U, U, U, U, U),
      Frame("automation_error", U, U, U, U, U, U, U, "navigation timeout") }

NextChat ==
    \/ Mount
    \/ \E ws \in SocketIds : WsOpen(ws)
    \/ \E ws \in SocketIds, data \in ChatFrames : OnMessage(ws, data)
    \/ \E d \in HoldDelays : HoldTimerFire(d)
    \/ \E text \in InputTexts : SetInput(text)
    \/ \E mode \in Modes : SetMode(mode)
    \/ HandleSend
    \/ \E response \in ChatResponses : ChatSettles(response)

SpecChat == Init /\ [][NextChat]_vars

(***************************************************************************)
(* The session alone on a channel that stays open: frames of every kind,   *)
(* the auto-revert timeouts and the rendering of the history.              *)
(***************************************************************************)
NextSession ==
    \/ Mount
    \/ \E ws \in SocketIds : WsOpen(ws)
    \/ \E ws \in SocketIds, data \in ChatFrames : OnMessage(ws, data)
    \/ \E d \in HoldDelays : HoldTimerFire(d)
    \/ Render

SpecSession == Init /\ [][NextSession]_vars

\* A timeout that is armed fires: each auto-revert callback runs.
FairSession == SpecSession /\ \A d \in HoldDelays : WF_vars(HoldTimerFire(d))

(***************************************************************************)
(* C1.  For a task delivered as start, progress*, complete from the idle   *)
(* state the phases are observed in the order idle, starting, running,     *)
(* completed, idle, and idle comes back only when the 2 s timer fires.     *)
(***************************************************************************)
SuccessEdges ==
    { <<"idle", "starting">>, <<"starting", "running">>,
      <<"running", "completed">>, <<"completed", "idle">> }

\* C1, strict reading: every change of phase follows the path idle -> starting ->
\* running -> completed -> idle.
C1_ExactSequence ==
    [][Phase' # Phase => <<Phase, Phase'>> \in SuccessEdges]_vars

\* C1, allowing no progress event: start leads from idle to starting, every progress event to
\* running, complete to completed (from running, or from starting when no
\* progress event came), and idle comes back from completed only, by the
\* 2 s timer's callback.
C1_PhaseSequence ==
    [][ /\ RunnerStart => Phase = "idle" /\ Phase' = "starting"
        /\ RunnerProgress => Phase' = "running"
        /\ RunnerComplete => Phase' = "completed"
        /\ Phase' # Phase =>
               <<Phase, Phase'>> \in SuccessEdges \cup {<<"starting", "completed">>}
        /\ (Phase # "idle" /\ Phase' = "idle") =>
               /\ Phase = "completed"
               /\ HoldTimerFire(CompleteHoldMs) ]_vars

\* a task that went through start, progress and complete is in its hold
C1_Witness ==
    /\ Phase = "completed"
    /\ holdTimers[CompleteHoldMs] = 1
    /\ holdTimers[ErrorHoldMs] = 0

(***************************************************************************)
(* C2.  A start event processed during the hold of the previous task       *)
(* cancels the pending auto-revert: no hold timer resets the new task.     *)
(* Only complete and error schedule a hold timer, and they leave a         *)
(* terminal status; a timer that fires in phase starting was scheduled     *)
(* for an earlier task.                                                    *)
(***************************************************************************)
C2_SupersedeCancelsHold ==
    [][ ( /\ lifecycle = "mounted"
          /\ Phase = "starting"
          /\ \E d \in HoldDelays : HoldTimerFire(d) )
            => UNCHANGED sessionVars ]_vars

(***************************************************************************)
(* C3.  The step history never holds more than 5 records.                  *)
(***************************************************************************)
\* "limit to last 5"
HistoryCap == 5

C3_HistoryBounded == Len(automationSteps) <= HistoryCap

(***************************************************************************)
(* C4.  What LiveStepsIndicator shows is the last min(3, length) records   *)
(* of the history, in the order they were appended, and rendering leaves   *)
(* the history and the rest of the state as they were.                     *)
(***************************************************************************)
\* records shown at most
VisibleCount == 3

IsLastRecords(shown, history) ==
    /\ Len(shown) = Min(VisibleCount, Len(history))
    /\ \A i \in 1..Len(shown) :
           shown[i] = history[Len(history) - Len(shown) + i]

C4_VisibleProjection ==
    [][ Render =>
            /\ IsLastRecords(visible', automationSteps)
            /\ UNCHANGED <<sessionVars, viewVars, holdTimers, connVars,
                           chatVars, consoleError>> ]_vars

\* more than three records, of different images, and the last three shown
C4_Witness ==
    /\ Len(automationSteps) > VisibleCount
    /\ Len(visible) = VisibleCount
    /\ IsLastRecords(visible, automationSteps)
    /\ visible[1].screenshot # visible[VisibleCount].screenshot
    /\ automationSteps[1].screenshot # visible[1].screenshot

(***************************************************************************)
(* C5.  At most one reconnect timer is pending at any instant.             *)
(***************************************************************************)
C5_OneReconnectTimer == Cardinality(reconnectTimers) <= 1

ClosedSockets == {ws \in SocketIds : sockets[ws] = "CLOSED"}

\* a second disconnect has happened and one timer is pending
C5_Witness ==
    /\ Cardinality(ClosedSockets) >= 2
    /\ failing = NullRef
    /\ Cardinality(reconnectTimers) = 1

(***************************************************************************)
(* C6.  connectWebSocket is idempotent: called while an attempt is in      *)
(* flight or while the current channel is open it creates no socket and    *)
(* changes nothing, so at most one attempt is in flight at a time.         *)
(***************************************************************************)
InFlightOrOpen ==
    \/ isConnectingRef
    \/ wsRef # NullRef /\ sockets[wsRef] = "OPEN"

Connecting == {ws \in SocketIds : sockets[ws] = "CONNECTING"}

C6_ConnectIdempotent ==
    /\ [](Cardinality(Connecting) <= 1)
    /\ [][ /\ Len(sockets') > Len(sockets) => ~InFlightOrOpen
           /\ (ConnectCall /\ InFlightOrOpen) =>
                  UNCHANGED <<lifecycle, sockets, wsRef, isConnectingRef,
                              reconnectTimeoutRef, reconnectTimers, timerCount,
                              mountWs, pingInterval, pingSentTo, failing,
                              storeVars>> ]_vars

\* a call made while the first attempt was in flight returned wsRef.current,
\* null, and the attempt is still the only socket
C6_Witness ==
    /\ lifecycle = "mounted"
    /\ isConnectingRef
    /\ connectResult = NullRef
    /\ sockets = <<"CONNECTING">>

(***************************************************************************)
(* C7.  Every close before shutdown is eventually followed by a new        *)
(* connection attempt (unless shutdown comes first and cancels the         *)
(* timer).  The last socket the bound allows is left out: the model        *)
(* creates none after it.                                                  *)
(***************************************************************************)
\* socket n is the newest one and its close handler has run
ClosedLast(n) ==
    /\ lifecycle = "mounted"
    /\ failing = NullRef
    /\ Len(sockets) = n
    /\ sockets[n] = "CLOSED"

C7_CloseLeadsToReconnect ==
    \A n \in 1..(MaxSockets - 1) :
        ClosedLast(n) ~>
            (lifecycle = "unmounted" \/ (Len(sockets) > n /\ sockets[n + 1] = "CONNECTING"))

\* the attempt that follows the close of the first socket
C7_Witness ==
    /\ lifecycle = "mounted"
    /\ sockets = <<"CLOSED", "CONNECTING">>
    /\ isConnectingRef
    /\ reconnectTimers = {}

(***************************************************************************)
(* C8.  After shutdown no reconnect timer is scheduled and no connection   *)
(* attempt is started.                                                     *)
(***************************************************************************)
C8_NoReconnectAfterShutdown ==
    [][ lifecycle = "unmounted" =>
            /\ reconnectTimers' \subseteq reconnectTimers
            /\ Len(sockets') = Len(sockets) ]_vars

(***************************************************************************)
(* C9.  Shutdown cancels every pending timer (reconnect delay, liveness    *)
(* interval, auto-revert), so that no timer callback runs after shutdown   *)
(* and resets the session or reconnects.                                   *)
(***************************************************************************)
C9_ShutdownCancelsTimers ==
    [][ /\ Unmount =>
               /\ reconnectTimers' = {}
               /\ ~pingInterval'
               /\ \A d \in HoldDelays : holdTimers'[d] = 0
        /\ lifecycle = "unmounted" =>
               /\ ~ \E d \in HoldDelays : HoldTimerFire(d)
               /\ ~ PingTick ]_vars

(***************************************************************************)
(* C10.  After shutdown no socket is open or connecting.                   *)
(***************************************************************************)
C10_ShutdownClosesChannel ==
    lifecycle = "unmounted" => \A ws \in SocketIds : ~Live(ws)

(***************************************************************************)
(* C11.  A frame that lacks a field its kind requires (start or progress   *)
(* without status or message, error without its text) is dropped: the      *)
(* message handler leaves isAutomating, automationStatus and               *)
(* automationSteps as they were.                                           *)
(***************************************************************************)
MissingRequiredField(data) ==
    \/ /\ data.type \in {"automation_start", "automation_status"}
       /\ (data.status = Undefined \/ data.message = Undefined)
    \/ /\ data.type = "automation_error"
       /\ data.error = Undefined

C11_MalformedDropped ==
    [][ (\E ws \in SocketIds, data \in Frames :
             MissingRequiredField(data) /\ OnMessage(ws, data))
            => UNCHANGED sessionVars ]_vars

(***************************************************************************)
(* C12.  A payload that cannot be parsed changes neither the session nor   *)
(* the connection and does not close the channel: the handler writes a     *)
(* diagnostic and nothing else, so the frames that follow find the state   *)
(* the payload found.                                                      *)
(***************************************************************************)
C12_UnparseableDropped ==
    [][ (\E ws \in SocketIds, data \in Frames :
             ~Parses(data) /\ OnMessage(ws, data))
            => UNCHANGED <<connVars, sessionVars, viewVars, holdTimers,
                           visible, chatVars>> ]_vars

\* a payload failed to parse, the channel is open and a task is running
C12_Witness ==
    /\ consoleError = "Error parsing WS message:"
    /\ Phase = "running"
    /\ Len(automationSteps) > 0
    /\ wsRef # NullRef /\ sockets[wsRef] = "OPEN"

(***************************************************************************)
(* C13.  While the session is idle (isAutomating false) it carries no       *)
(* status: automationStatus is null, so headline, detail, current action   *)
(* and step counters are all absent.                                       *)
(***************************************************************************)
C13_IdleHasNoStatus == ~isAutomating => automationStatus = Null

(***************************************************************************)
(* C14.  Once handleSend has made the session active with the placeholder  *)
(* status, the session does not go back to idle unless a complete or       *)
(* error frame is handled after that.  While the placeholder status is     *)
(* stored no frame has been handled since the trigger, so no step may      *)
(* turn isAutomating off in such a state.                                  *)
(***************************************************************************)
C14_OptimisticNotReverted ==
    [][ (isAutomating /\ automationStatus = PlaceholderStatus)
            => isAutomating' ]_vars

(***************************************************************************)
(* C15.  When a start frame has been handled already (the phase is         *)
(* starting or running), a handleSend that meets the trigger's condition   *)
(* leaves isAutomating, automationStatus and automationSteps unchanged.    *)
(***************************************************************************)
C15_TriggerAfterStartIsNoOp ==
    [][ (Phase \in {"starting", "running"} /\ HandleSend)
            => UNCHANGED sessionVars ]_vars

(***************************************************************************)
(* C16.  The optimistic trigger is idempotent: applied to the session it   *)
(* has just produced it changes nothing, whatever session it started       *)
(* from, and an accepted handleSend that meets the trigger's condition     *)
(* applies it.                                                             *)
(***************************************************************************)
AcceptedTrigger ==
    /\ Trim(input) # "" /\ ~isLoading
    /\ TriggersAutomation(currentMode, input)
    /\ HandleSend

C16_TriggerIdempotent ==
    /\ [](OptimisticTrigger(OptimisticTrigger(sessionVars))
              = OptimisticTrigger(sessionVars))
    /\ [][ AcceptedTrigger =>
               /\ sessionVars' = OptimisticTrigger(sessionVars)
               /\ (sessionVars = OptimisticTrigger(sessionVars)
                      => UNCHANGED sessionVars) ]_vars

\* two sends that met the condition, the second one still in flight, the
\* session as the trigger leaves it and the history it found
C16_Witness ==
    /\ Len(messages) = 3
    /\ messages[1].role = "user" /\ messages[3].role = "user"
    /\ TriggersAutomation(messages[1].mode, messages[1].content)
    /\ TriggersAutomation(messages[3].mode, messages[3].content)
    /\ isLoading
    /\ isAutomating /\ automationStatus = PlaceholderStatus
    /\ Len(automationSteps) > 0

(***************************************************************************)
(* C17.  The open, close and error handlers and the reconnect timeout      *)
(* leave isAutomating, automationStatus and automationSteps unchanged.     *)
(***************************************************************************)
C17_TransportKeepsSession ==
    [][ ( \/ \E ws \in SocketIds : WsOpen(ws) \/ WsError(ws) \/ WsClose(ws)
          \/ \E t \in reconnectTimers : ReconnectTimerFire(t) )
            => UNCHANGED sessionVars ]_vars

\* a task is running with a history, the first socket is gone and the
\* reconnected one is open
C17_Witness ==
    /\ Len(sockets) >= 2
    /\ sockets[1] = "CLOSED" /\ sockets[2] = "OPEN" /\ wsRef = 2
    /\ Phase = "running"
    /\ Len(automationSteps) > 0

(***************************************************************************)
(* C18.  One reset per completed or failed task: handling a complete or    *)
(* error frame arms exactly one timeout (2 s, 3 s) and resets nothing;     *)
(* the session is reset only by the callback of such a timeout, which      *)
(* disarms exactly that timeout; and every armed timeout fires.            *)
(***************************************************************************)
TerminalFrames(d) ==
    { f \in ChatFrames :
          f.type = IF d = CompleteHoldMs THEN "automation_complete"
                                         ELSE "automation_error" }

Cleared ==
    /\ ~isAutomating
    /\ automationStatus = Null
    /\ automationSteps = << >>

C18_OneResetPerTask ==
    /\ [][ holdTimers' # holdTimers =>
               \/ \E d \in HoldDelays :
                      /\ \E ws \in SocketIds, f \in TerminalFrames(d) : OnMessage(ws, f)
                      /\ holdTimers' = [holdTimers EXCEPT ![d] = @ + 1]
                      /\ UNCHANGED <<isAutomating, automationSteps>>
               \/ \E d \in HoldDelays :
                      /\ HoldTimerFire(d)
                      /\ holdTimers' = [holdTimers EXCEPT ![d] = @ - 1] ]_vars
    /\ [][ ((isAutomating /\ ~isAutomating')
              \/ (automationStatus # Null /\ automationStatus' = Null))
               => \E d \in HoldDelays :
                      /\ HoldTimerFire(d)
                      /\ holdTimers' = [holdTimers EXCEPT ![d] = @ - 1] ]_vars
    /\ \A d \in HoldDelays :
           \/ []<><<HoldTimerFire(d)>>_vars
           \/ <>[](holdTimers[d] = 0)

\* a task that showed its steps has been reset, and the timeout another
\* error frame armed is still to fire
C18_Witness ==
    /\ Cleared
    /\ Len(visible) > 0
    /\ holdTimers[CompleteHoldMs] = 0
    /\ holdTimers[ErrorHoldMs] = 1

(***************************************************************************)
(* C19.  After a complete or an error frame (its timeout is armed) the     *)
(* session eventually is idle with isAutomating false, automationStatus    *)
(* null and an empty history, and the step that turns isAutomating off     *)
(* clears all three at once.                                               *)
(***************************************************************************)
C19_EventuallyIdle ==
    /\ \A d \in HoldDelays : (holdTimers[d] > 0) ~> Cleared
    /\ [][ (isAutomating /\ ~isAutomating') => Cleared' ]_vars

\* a task that showed its steps has come to its end and was cleared
C19_Witness ==
    /\ Cleared
    /\ Len(visible) > 0
    /\ NoHoldPending

NonStartTypes ==
    {"automation_status", "screenshot_update", "automation_complete",
     "automation_error"}

C21_IdleIgnoresNonStart ==
    [][ ( /\ Phase = "idle"
          /\ \E ws \in SocketIds, data \in Frames :
                 data.type \in NonStartTypes /\ OnMessage(ws, data) )
            => UNCHANGED <<sessionVars, holdTimers>> ]_vars

(***************************************************************************)
(* C23.  The record a screenshot frame appends carries the action and the  *)
(* message of the automationStatus stored when the frame is handled        *)
(* ('update' and 'Updated' when it holds none).                            *)
(***************************************************************************)
C23_RecordUsesCurrentStatus ==
    [][ Len(automationSteps') = Len(automationSteps) + 1 =>
            LET record == automationSteps'[Len(automationSteps')]
            IN  /\ record.action = Or(Get(automationStatus, "action"), "update")
                /\ record.message = Or(Get(automationStatus, "message"), "Updated") ]_vars

(***************************************************************************)
(* C24.  The phase moves forward only: idle -> starting -> running ->      *)
(* completed or failed -> idle.  A start may begin a new task from any     *)
(* phase, and a task may end from starting; nothing else moves a           *)
(* completed or failed session back, enters running from anywhere but      *)
(* starting, or makes an unfinished session idle.                          *)
(***************************************************************************)
ForwardEdges ==
    { <<"idle", "starting">>, <<"starting", "running">>,
      <<"starting", "completed">>, <<"starting", "failed">>,
      <<"running", "completed">>, <<"running", "failed">>,
      <<"completed", "idle">>, <<"failed", "idle">>,
      <<"completed", "starting">>, <<"failed", "starting">>,
      <<"running", "starting">> }

C24_PhaseMovesForward ==
    [][ Phase' # Phase => <<Phase, Phase'>> \in ForwardEdges ]_vars

(***************************************************************************)
(* C25.  A record is appended to the history only while the phase is       *)
(* starting or running.                                                    *)
(***************************************************************************)
C25_RecordsOnlyWhileActive ==
    [][ Len(automationSteps') > Len(automationSteps)
            => Phase \in {"starting", "running"} ]_vars

(***************************************************************************)
(* C26.  Every step from idle into starting, by a start frame or by        *)
(* handleSend, leaves the history empty and the status that of the         *)
(* triggering event.                                                       *)
(***************************************************************************)
C26_StartingBeginsEmpty ==
    [][ (Phase = "idle" /\ Phase' = "starting") =>
            /\ automationSteps' = << >>
            /\ \/ \E ws \in SocketIds, data \in ChatFrames :
                      /\ OnMessage(ws, data)
                      /\ automationStatus' =
                             [status |-> data.status, message |-> data.message]
               \/ HandleSend /\ automationStatus' = PlaceholderStatus ]_vars

(***************************************************************************)
(* C22.  The keep-alive ping goes out only on the current socket and only  *)
(* when it is open; when it is not, the interval's callback changes        *)
(* nothing: nothing is sent, nothing is kept for later.                    *)
(***************************************************************************)
ChannelOpen == wsRef # NullRef /\ sockets[wsRef] = "OPEN"

C22_SendOnlyWhenOpen ==
    /\ [](~ChannelOpen => ~ENABLED <<PingTick>>_vars)
    /\ [][ pingSentTo' # pingSentTo =>
               /\ PingTick
               /\ ChannelOpen
               /\ pingSentTo' = wsRef ]_vars

\* the first socket is gone and a ping went out on the reconnected one
C22_Witness ==
    /\ Len(sockets) >= 2
    /\ sockets[1] = "CLOSED"
    /\ pingSentTo = 2
    /\ wsRef = 2 /\ sockets[2] = "OPEN"

(***************************************************************************)
(* C27.  A progress frame handled while the phase is starting or running   *)
(* leaves the phase running and the status equal to the frame's status,    *)
(* message, action, step and maxSteps; isAutomating and the history are    *)
(* unchanged.                                                              *)
(***************************************************************************)
C27_ProgressSetsStatus ==
    [][ \A data \in StatusFrames :
            ( /\ Phase \in {"starting", "running"}
              /\ \E ws \in SocketIds : OnMessage(ws, data) )
                => /\ Phase' = "running"
                   /\ automationStatus'.status = data.status
                   /\ automationStatus'.message = data.message
                   /\ automationStatus'.action = data.action
                   /\ automationStatus'.step = data.step
                   /\ automationStatus'.maxSteps = data.maxSteps
                   /\ UNCHANGED <<isAutomating, automationSteps>> ]_vars

\* step 2 of 5, a click, reported for a task that has a history
C27_Witness ==
    /\ Phase = "running"
    /\ automationStatus.action = "click"
    /\ automationStatus.step = "2" /\ automationStatus.maxSteps = "5"
    /\ Len(automationSteps) > 0

(***************************************************************************)
(* C28.  A screenshot frame changes neither isAutomating nor the status.   *)
(* It appends one record when it carries an image and leaves the history   *)
(* alone when it does not; it sets the location when it carries one and    *)
(* leaves it alone when it does not; the one whatever the other.           *)
(***************************************************************************)
C28_ScreenshotFrameEffect ==
    [][ \A data \in ScreenshotFrames :
            (\E ws \in SocketIds : OnMessage(ws, data))
                => /\ UNCHANGED <<isAutomating, automationStatus>>
                   /\ Phase' = Phase
                   /\ IF Truthy(data.screenshot)
                      THEN /\ Len(automationSteps') = Len(automationSteps) + 1
                           /\ SubSeq(automationSteps', 1, Len(automationSteps))
                                  = automationSteps
                           /\ automationSteps'[Len(automationSteps')].screenshot
                                  = data.screenshot
                      ELSE UNCHANGED <<automationSteps, browserScreenshot>>
                   /\ IF Truthy(data.url)
                      THEN currentUrl' = data.url /\ browserUrl' = data.url
                      ELSE UNCHANGED <<currentUrl, browserUrl>> ]_vars

\* a frame with a location and no image has been handled: the location is
\* set and the history is empty
C28_Witness ==
    /\ currentUrl = "http://a"
    /\ browserUrl = "http://a"
    /\ automationSteps = << >>
    /\ browserScreenshot = Null
    /\ isAutomating

(***************************************************************************)
(* C29.  A start frame handled after handleSend raised the placeholder     *)
(* status keeps the session active, in phase starting, with the frame's    *)
(* status and message; and from the trigger to that frame the session is   *)
(* never idle.                                                             *)
(***************************************************************************)
C29_StartAfterTrigger ==
    /\ [][ \A data \in StartFrames :
               ( /\ isAutomating /\ automationStatus = PlaceholderStatus
                 /\ \E ws \in SocketIds : OnMessage(ws, data) )
                   => /\ isAutomating'
                      /\ Phase' = "starting"
                      /\ automationStatus' =
                             [status |-> data.status, message |-> data.message] ]_vars
    /\ [][ (isAutomating /\ automationStatus = PlaceholderStatus)
               => Phase' # "idle" ]_vars

(***************************************************************************)
(* C30.  A pong frame and a frame of an unknown kind change nothing: no    *)
(* step that handles one of them changes any part of the state.            *)
(***************************************************************************)
IgnoredFrames ==
    { f \in Frames : Parses(f) /\ f.type \notin
          ({"automation_start"} \cup NonStartTypes) }

C30_PongAndUnknownIgnored ==
    \A ws \in SocketIds, data \in IgnoredFrames :
        ~ENABLED <<OnMessage(ws, data)>>_vars

\* the pong that answers a ping can be delivered while a task runs and a
\* timeout is armed
C30_Witness ==
    /\ ChannelOpen
    /\ pingSentTo = wsRef
    /\ ENABLED OnMessage(wsRef, Frame("pong", U, U, U, U, U, U, U, U))
    /\ isAutomating
    /\ Len(automationSteps) > 0
    /\ holdTimers[CompleteHoldMs] = 1

(***************************************************************************)
(* C31.  The step number and the step total of the session status are      *)
(* both present or both absent, whatever the progress frames carry.        *)
(***************************************************************************)
Present(v) == v # Undefined

C32_ErrorHandlerNeverRetries ==
    /\ [][ (\E ws \in SocketIds : WsError(ws)) =>
               /\ UNCHANGED <<reconnectTimers, timerCount, reconnectTimeoutRef>>
               /\ Len(sockets') = Len(sockets) ]_vars
    /\ [][ timerCount' # timerCount =>
               /\ \E ws \in SocketIds : WsClose(ws)
               /\ timerCount' = timerCount + 1 ]_vars
    /\ [][ (lifecycle = "mounted" /\ failing # NullRef /\ WsClose(failing))
               => Cardinality(reconnectTimers') = 1 ]_vars

\* the first attempt failed: error, then close, and one reconnect pending
C32_Witness ==
    /\ lifecycle = "mounted"
    /\ sockets = <<"CLOSED">>
    /\ consoleError = "WebSocket error:"
    /\ failing = NullRef
    /\ Cardinality(reconnectTimers) = 1
    /\ timerCount = 1

(***************************************************************************)
(* C33.  While a socket is open no reconnect is pending, and no reconnect  *)
(* timeout fires while a socket is open.                                   *)
(***************************************************************************)
OpenSockets == {ws \in SocketIds : sockets[ws] = "OPEN"}

C33_NoTimerWhileOpen ==
    /\ [](OpenSockets # {} => reconnectTimers = {})
    /\ [][ (\E t \in reconnectTimers : ReconnectTimerFire(t))
               => OpenSockets = {} ]_vars

\* the channel is open again after a reconnect and nothing is pending
C33_Witness ==
    /\ Len(sockets) >= 2
    /\ sockets[2] = "OPEN"
    /\ timerCount >= 1
    /\ reconnectTimers = {}
    /\ reconnectTimeoutRef = NullRef

(***************************************************************************)
(* C34.  At most one socket is connecting or open at any time.             *)
(***************************************************************************)
LiveSockets == {ws \in SocketIds : Live(ws)}

C34_OneLiveSocket == Cardinality(LiveSockets) <= 1

\* two sockets are gone and the third is the only live one
C34_Witness ==
    /\ sockets = <<"CLOSED", "CLOSED", "OPEN">>
    /\ wsRef = 3

(***************************************************************************)
(* C35.  Between mount and shutdown the connection manager is never left   *)
(* disconnected with nothing under way: a socket is open, or an attempt    *)
(* is in flight, or a reconnect is pending, or the close event of a        *)
(* failed socket is still to come.                                         *)
(***************************************************************************)
C35_NeverStuckDisconnected ==
    lifecycle = "mounted" =>
        \/ OpenSockets # {}
        \/ Connecting # {}
        \/ reconnectTimers # {}
        \/ failing # NullRef

\* the connection failed twice and the second reconnect is pending
C35_Witness ==
    /\ lifecycle = "mounted"
    /\ sockets = <<"CLOSED", "CLOSED">>
    /\ failing = NullRef
    /\ reconnectTimers = {2}

(***************************************************************************)
(* C36.  Between handlers, isAutomating true implies that automationStatus *)
(* is not null.                                                            *)
(***************************************************************************)
C36_ActiveHasStatus == isAutomating => automationStatus # Null

\* the session was made active by a start frame and by nothing else
C36_Witness ==
    /\ isAutomating
    /\ automationStatus = [status |-> "Working...", message |-> "Preparing"]
    /\ messages = << >>

(***************************************************************************)
(* C37.  isAutomating goes from true to false only in the callback of an   *)
(* auto-revert timeout; so an active session stays active as long as no    *)
(* complete or error frame is handled.                                     *)
(***************************************************************************)
\* in phase starting no complete or error frame has been handled since the
\* session was made active
C37_ActiveUntilTerminalFrame ==
    /\ [][ (isAutomating /\ ~isAutomating')
               => \E d \in HoldDelays : HoldTimerFire(d) ]_vars
    /\ [][ Phase = "starting" => isAutomating' ]_vars

(***************************************************************************)
(* C38.  handleSend does nothing while a request is in flight or the       *)
(* input is blank, so at most one chat request is in flight; an accepted   *)
(* send appends the user message, its settling appends one assistant       *)
(* message and turns isLoading off.                                        *)
(***************************************************************************)
RolesAlternate ==
    \A i \in 1..Len(messages) :
        messages[i].role = IF i % 2 = 1 THEN "user" ELSE "assistant"

C38_OneChatRequestAtATime ==
    /\ [](Len(pendingChat) <= 1)
    /\ [](isLoading <=> pendingChat # << >>)
    /\ [](RolesAlternate /\ (isLoading <=> Len(messages) % 2 = 1))
    /\ []((Trim(input) = "" \/ isLoading) => ~ENABLED <<HandleSend>>_vars)
    /\ [][ HandleSend =>
               /\ messages' = Append(messages,
                      [role |-> "user", content |-> input, mode |-> currentMode])
               /\ isLoading' /\ ~isLoading ]_vars
    /\ [][ (\E response \in ChatResponses : ChatSettles(response)) =>
               /\ Len(messages') = Len(messages) + 1
               /\ SubSeq(messages', 1, Len(messages)) = messages
               /\ messages'[Len(messages')].role = "assistant"
               /\ ~isLoading' ]_vars

\* two sends, one answered and one failed, and nothing in flight
C38_Witness ==
    /\ Len(messages) = 4
    /\ messages[2].content = "reply"
    /\ messages[4].content = "Sorry, I encountered an error. Please try again."
    /\ ~isLoading
    /\ pendingChat = << >>

(***************************************************************************)
(* C39.  The auto-revert reset clears isAutomating, automationStatus and   *)
(* automationSteps and changes nothing else: messages, mode, location and  *)
(* browser screenshot stay.                                                *)
(***************************************************************************)
C39_ResetTouchesSessionOnly ==
    [][ (\E d \in HoldDelays : HoldTimerFire(d)) =>
            /\ Cleared'
            /\ UNCHANGED <<messages, currentMode, input, isLoading,
                           currentUrl, browserUrl, browserScreenshot>> ]_vars

\* after the reset the conversation, the mode, the location and the
\* screenshot are still there
C39_Witness ==
    /\ Cleared
    /\ NoHoldPending
    /\ Len(messages) >= 2
    /\ currentMode = "automate"
    /\ currentUrl = "http://a" /\ browserUrl = "http://a"
    /\ browserScreenshot # Null

====
